---- MODULE Spec2Model ----
(***************************************************************************)
(* The room service of the live-polling backend (RoomService) over the     *)
(* Room collection (RoomSchema) and the User collection.                   *)
(*                                                                         *)
(* A string the code takes apart (the random draw, the room code) is a     *)
(* sequence of one-character strings; every other string is a TLA+ string. *)
(* A Date is a number of milliseconds; an absent field is the empty        *)
(* sequence, a present one a one-element sequence.                         *)
(***************************************************************************)
EXTENDS Integers, Sequences, FiniteSets, TLC

VARIABLES
    rooms,      \* the Room collection: documents in insertion (natural) order
    now,        \* the clock new Date() reads
    call,       \* the calls suspended at an await, in the order they began
    ret,        \* the last event: the call that ran last and its outcome
    endCalls,   \* history: per room, the endRoom calls that matched it so far
    userDocs,   \* the User collection
    storeUp,    \* whether a round trip to the document store succeeds
    router,     \* the web client's router: the auth store and the location
    teacher,    \* the teacher's poll room page (TeacherPollRoom)
    student     \* the student's poll room page (StudentPollRoom)

\* the room service and the pages of the web client
service == <<rooms, now, call, ret, endCalls, userDocs, storeUp>>
pages == <<router, teacher, student>>
vars == <<service, pages>>

----------------------------------------------------------------------------
(* Bounds of the model.                                                    *)

MaxPolls == 1           \* polls stored over all rooms, room lifecycle
MaxAnswers == 1         \* answers stored over all polls, room lifecycle
MaxRoomPolls == 2       \* polls stored in the room under analysis
MaxRoomAnswers == 3     \* answers stored in the room under analysis
MaxEndCalls == 2        \* endRoom calls counted per room (the history saturates)
MaxPending == 2         \* createRoom calls in flight at the same time
MaxHops == 3            \* redirects followed in one navigation
MaxCommits == 2         \* delayed commits of the student page pending at once
MaxWords == 200         \* words the recognition delivers to the teacher page
MaxRecordings == 2      \* recordings started on the teacher page
MaxGenerated == 3       \* questions the generate-questions endpoint returns in all
MaxWaiting == 2         \* stop handlers waiting for the queue at once
MaxEnqueued == 2        \* chunks enqueued before the recognition falls silent

----------------------------------------------------------------------------
(* Inputs.                                                                 *)

\* createRoom calls: who draws which code
Creations ==
    { << <<"0", ".", "i">>, "teacher-1" >>,
      << <<"0", ".", "4", "f", "z", "y", "o", "8", "2", "m", "v">>, "teacher-2" >>,
      << <<"0">>, "teacher-1" >> }

\* Values of Math.random().toString(36): 0.5, a long fraction,
\* and 0 itself (Math.random() may return 0, whose base-36 text is "0").
Draws == { x[1] : x \in Creations }

Names == {"Algebra"}
TeacherIds == {"teacher-1", "teacher-2"}
StatusFilters == {"active", "ended"}
UserIds == {"u1", "u2", "u3"}
\* The text of the k-th poll asked in a room: the questions differ
Questions == <<"qA", "qB", "qC", "qD">>
AnswerIndexes == {0, 1}
CorrectIndexes == {-1, 0}
\* the polls whose correct option has been configured
ConfiguredIndexes == CorrectIndexes \ {-1}

\* answerIndex is a Number with no range in AnswerSchema: the values next to
\* and at the sentinel of correctOptionIndex
StoredAnswerIndexes == {-1, 0, 1}

\* The User collection: u1 and u2 have a record, u3 has none.
Users ==
    { [firebaseUID |-> "u1", firstName |-> "Ann"],
      [firebaseUID |-> "u2", firstName |-> "Bob"] }

----------------------------------------------------------------------------
(* String helpers.                                                         *)

Lower == <<"a","b","c","d","e","f","g","h","i","j","k","l","m",
           "n","o","p","q","r","s","t","u","v","w","x","y","z">>
Upper == <<"A","B","C","D","E","F","G","H","I","J","K","L","M",
           "N","O","P","Q","R","S","T","U","V","W","X","Y","Z">>

Min(a, b) == IF a < b THEN a ELSE b

\* String.prototype.toUpperCase, one character
UpperChar(c) ==
    IF \E i \in 1..Len(Lower) : Lower[i] = c
    THEN Upper[CHOOSE i \in 1..Len(Lower) : Lower[i] = c]
    ELSE c

\* String.prototype.toUpperCase
ToUpperCase(s) == [i \in 1..Len(s) |-> UpperChar(s[i])]

\* String.prototype.substring(from, to), 0 <= from <= to, indices from 0
Substring(s, from, to) == SubSeq(s, Min(from, Len(s)) + 1, Min(to, Len(s)))

\* createRoom's code: Math.random().toString(36).substring(2, 8).toUpperCase()
GenerateCode(draw) == ToUpperCase(Substring(draw, 2, 8))

\* The room codes createRoom can generate here, and the codes a caller may pass:
\* those that are not empty, and a code in lower case.
GeneratedCodes == { GenerateCode(d) : d \in Draws }
Codes == (GeneratedCodes \ { <<>> }) \cup { <<"i">> }

\* String.prototype.toLowerCase on a status value
StatusToLowerCase(s) ==
    CASE s = "ACTIVE" -> "active"
      [] s = "Active" -> "active"
      [] s = "ENDED" -> "ended"
      [] s = "Ended" -> "ended"
      [] OTHER -> s

----------------------------------------------------------------------------
(* The Room collection.                                                    *)

Absent == <<>>
Present(v) == <<v>>

\* Room.findOne({ roomCode: code }): the index of the first match, 0 if none
FindOne(store, code) ==
    IF \E i \in 1..Len(store) : store[i].roomCode = code
    THEN CHOOSE i \in 1..Len(store) :
            /\ store[i].roomCode = code
            /\ \A j \in 1..(i - 1) : store[j].roomCode # code
    ELSE 0

\* RoomSchema: roomCode is required (an empty string does not pass) ...
RoomCodeRequired(code) == Len(code) > 0

\* A collection whose roomCode index is not unique
RoomCodeNotIndexed(store, code) == TRUE

\* ... and unique: the unique index refuses a second document with the code
RoomCodeUnique(store, code) == FindOne(store, code) = 0

\* new Room({...}) as createRoom builds it; the store assigns _id
NewRoom(store, code, name, teacherId, date) ==
    [ _id |-> Len(store) + 1,
      roomCode |-> code,
      name |-> name,
      teacherId |-> teacherId,
      createdAt |-> Present(date),
      endedAt |-> Absent,
      status |-> "active",
      polls |-> <<>> ]

\* A variant of EndUpdate that flips the status instead of setting it
EndUpdateToggle(room) ==
    [room EXCEPT !.status = IF @ = "active" THEN "ended" ELSE "active"]

\* A variant of EndUpdate that replaces the document by the update document
EndUpdateReplace(room) ==
    [room EXCEPT !.status = "ended", !.name = "", !.polls = <<>>]

\* findOneAndUpdate's update document of endRoom: { status: 'ended' }
EndUpdate(room) == [room EXCEPT !.status = "ended"]

NPolls(store) == LET RECURSIVE Sum(_)
                     Sum(i) == IF i = 0 THEN 0 ELSE Len(store[i].polls) + Sum(i - 1)
                 IN Sum(Len(store))

NAnswersOf(room) == LET RECURSIVE Sum(_)
                        Sum(k) == IF k = 0 THEN 0
                                  ELSE Len(room.polls[k].answers) + Sum(k - 1)
                    IN Sum(Len(room.polls))

NAnswers(store) == LET RECURSIVE Sum(_)
                       Sum(i) == IF i = 0 THEN 0 ELSE NAnswersOf(store[i]) + Sum(i - 1)
                   IN Sum(Len(store))

----------------------------------------------------------------------------
(* Outcomes of calls.                                                      *)

Returned(op, code, val) == [op |-> op, code |-> code, kind |-> "return", val |-> val]
Thrown(op, code, err) == [op |-> op, code |-> code, kind |-> "throw", val |-> err]
Pending(op, code) == [op |-> op, code |-> code, kind |-> "pending", val |-> FALSE]

NoCall == <<>>

----------------------------------------------------------------------------
(* The router of the web client. A path is the sequence of its segments;   *)
(* a beforeLoad gives the path it redirects to, or Absent when it lets the *)
(* navigation through. The parent's beforeLoad guards its child routes.    *)

Roles == {"teacher", "student", "admin"}
AuthStates == [ isAuthenticated : BOOLEAN,
                role : {Absent} \cup { Present(r) : r \in Roles } ]

TeacherPaths == { <<"teacher">>, <<"teacher", "genai">>, <<"teacher", "pollroom">>,
                  <<"teacher", "pollroom", "$code">> }
StudentPaths == { <<"student">>, <<"student", "pollroom">>,
                  <<"student", "pollroom", "$code">> }
StartPaths == { <<>>, <<"auth">>, <<"elsewhere">> } \cup TeacherPaths \cup StudentPaths

\* user?.role === r
RoleIs(auth, r) == auth.role # Absent /\ auth.role[1] = r

\* authRoute.beforeLoad
AuthBeforeLoad(auth) ==
    IF auth.isAuthenticated /\ auth.role # Absent
    THEN IF RoleIs(auth, "teacher") THEN Present(<<"teacher">>)
         ELSE IF RoleIs(auth, "student") THEN Present(<<"student">>)
         ELSE Absent
    ELSE Absent

\* indexRoute.beforeLoad
IndexBeforeLoad(auth) ==
    IF auth.isAuthenticated /\ auth.role # Absent /\ RoleIs(auth, "teacher")
    THEN Present(<<"teacher">>)
    ELSE IF auth.isAuthenticated /\ auth.role # Absent /\ RoleIs(auth, "student")
    THEN Present(<<"student">>)
    ELSE Present(<<"auth">>)

\* A variant of the teacher layout's beforeLoad that checks the sign-in only
TeacherBeforeLoadAnyRole(auth) ==
    IF ~auth.isAuthenticated THEN Present(<<"auth">>) ELSE Absent

\* teacherLayoutRoute.beforeLoad
TeacherBeforeLoad(auth) ==
    IF ~auth.isAuthenticated THEN Present(<<"auth">>)
    ELSE IF ~RoleIs(auth, "teacher")
    THEN IF RoleIs(auth, "student") THEN Present(<<"student">>)
         ELSE Present(<<"auth">>)
    ELSE Absent

\* studentLayoutRoute.beforeLoad
StudentBeforeLoad(auth) ==
    IF ~auth.isAuthenticated THEN Present(<<"auth">>)
    ELSE IF ~RoleIs(auth, "student")
    THEN IF RoleIs(auth, "teacher") THEN Present(<<"teacher">>)
         ELSE Present(<<"auth">>)
    ELSE Absent

\* the beforeLoad of the route tree that matches the path; a path that
\* matches no route goes to the not-found route, which has none
BeforeLoad(path, auth) ==
    IF path = <<>> THEN IndexBeforeLoad(auth)
    ELSE IF path = <<"auth">> THEN AuthBeforeLoad(auth)
    ELSE IF path \in TeacherPaths THEN TeacherBeforeLoad(auth)
    ELSE IF path \in StudentPaths THEN StudentBeforeLoad(auth)
    ELSE Absent

\* a navigation to path that has run no beforeLoad yet
NavigationTo(auth, path) ==
    [ auth |-> auth, from |-> path, path |-> path, hops |-> 0, landed |-> FALSE ]

RouterInit == NavigationTo([isAuthenticated |-> FALSE, role |-> Absent], <<>>)

----------------------------------------------------------------------------
(* The student's poll room page. A poll's timer is in seconds; an option   *)
(* not yet selected and an answer not yet recorded are Absent.             *)

PollIds == {"1", "2"}
\* the timer each poll starts with
PollTimer == [p \in PollIds |-> IF p = "1" THEN 30 ELSE 45]
\* two of the options a poll offers, by index
OptionIndexes == {0, 1}

StudentPollRoomInit ==
    [ pollTimers |-> PollTimer,
      selectedOptions |-> [p \in PollIds |-> Absent],
      answeredPolls |-> [p \in PollIds |-> Absent],
      timeouts |-> <<>> ]

\* the disabled attribute of a poll's option buttons and Submit button
ButtonsDisabled(page, p) ==
    page.pollTimers[p] = 0 \/ page.answeredPolls[p] # Absent

\* activePolls: only an unanswered poll is rendered with its buttons
IsActivePoll(page, p) == page.answeredPolls[p] = Absent

----------------------------------------------------------------------------
(* The teacher's poll room page (Web Speech mode, useWhisper false). The   *)
(* transcript is modelled by its word counts: a word is its position in    *)
(* displayTranscript, a chunk of text is the range of positions [from, to) *)
(* it was sliced from. A generated question is a number, the order in      *)
(* which the endpoint produced it. A state setter and the effects that the *)
(* resulting render runs are one step with the handler that called it.     *)

\* words of one checkpoint chunk
ChunkWords == 100
\* words of a final result and of an interim result of the recognition
FinalWords == {0, 45, 100}
InterimWords == {0, 60}
\* questions one generate-questions response carries after filtering
QuestionCounts == {0, 1, 2}

TeacherPollRoomInit ==
    [ showPollModal |-> FALSE,
      showResultsModal |-> FALSE,
      showPreview |-> FALSE,
      generatedQuestions |-> <<>>,
      currentQuestionIndex |-> 0,
      launchedQuestions |-> {},
      isGenerating |-> FALSE,
      isRecording |-> FALSE,
      liveTranscript |-> 0,
      interimTranscript |-> 0,
      processedWords |-> 0,
      pendingTextChunks |-> <<>>,
      processingQueue |-> FALSE,
      queuedGeneratedQuestions |-> <<>>,
      \* the running recognition: the word count its onend closure captured
      recognition |-> Absent,
      \* calls of handleRecordingToggle in their wait loop
      waiting |-> 0,
      \* requests in flight, one per running processPendingQueue loop
      requests |-> <<>>,
      \* what went over the wire and through enqueueTextChunk so far
      recordings |-> 0,
      enqueued |-> <<>>,
      sent |-> <<>>,
      failed |-> <<>>,
      generated |-> 0,
      createdPolls |-> <<>> ]

\* displayTranscript, in words
DisplayWords(t) == t.liveTranscript + t.interimTranscript

\* the head of the while loop of processPendingQueue, up to its next await
QueueLoop(t) ==
    IF t.pendingTextChunks = <<>>
    THEN [t EXCEPT !.processingQueue = FALSE]
    ELSE [t EXCEPT !.pendingTextChunks = Tail(@),
                   !.requests = Append(@, Head(t.pendingTextChunks)),
                   !.sent = Append(@, Head(t.pendingTextChunks))]

\* processPendingQueue without its guard: every call runs a loop
ProcessPendingQueueUnguarded(t) == QueueLoop([t EXCEPT !.processingQueue = TRUE])

\* processPendingQueue, up to its first await
ProcessPendingQueue(t) ==
    IF t.processingQueue THEN t
    ELSE QueueLoop([t EXCEPT !.processingQueue = TRUE])

\* enqueueTextChunk of the words [from, to)
EnqueueTextChunk(t, from, to) ==
    IF to <= from THEN t
    ELSE LET chunk == [from |-> from, to |-> to,
                       serial |-> Len(t.enqueued) + 1, recording |-> t.recordings]
         IN ProcessPendingQueue([t EXCEPT !.pendingTextChunks = Append(@, chunk),
                                          !.enqueued = Append(@, chunk)])

\* the effect that resets the queue buffers, run when isRecording changed
ResetQueueBuffers(t) ==
    IF t.isRecording
    THEN [t EXCEPT !.processedWords = 0,
                   !.pendingTextChunks = <<>>,
                   !.queuedGeneratedQuestions = <<>>]
    ELSE t

\* the effect that watches displayTranscript and enqueues 100-word checkpoints
RECURSIVE EnqueueCheckpoints(_)
EnqueueCheckpoints(t) ==
    IF DisplayWords(t) - t.processedWords >= ChunkWords
    THEN EnqueueCheckpoints(
            EnqueueTextChunk([t EXCEPT !.processedWords = @ + ChunkWords],
                             t.processedWords, t.processedWords + ChunkWords))
    ELSE t

\* the effects of one render, in the order the component registers them;
\* the reset and the checkpoint effects are registered twice
RunEffects(t, recordingChanged, transcriptChanged) ==
    LET reset(u) == IF recordingChanged THEN ResetQueueBuffers(u) ELSE u
        watch(u) == IF transcriptChanged THEN EnqueueCheckpoints(u) ELSE u
    IN watch(reset(watch(reset(t))))

\* the flush of handleRecordingToggle: the words of its transcript beyond
\* processedWords
FlushRemaining(t, words) ==
    LET remaining == words - t.processedWords
    IN IF remaining > 0
       THEN EnqueueTextChunk([t EXCEPT !.processedWords = @ + remaining],
                             t.processedWords, t.processedWords + remaining)
       ELSE t

\* the questions a response adds: the next n the endpoint generated
NewQuestions(t, n) == [i \in 1..n |-> t.generated + i]

\* the panel with the record, generate and clear buttons is on screen
PanelRendered(t) == ~t.showPollModal /\ ~t.showResultsModal /\ ~t.showPreview

\* the generated-question viewer is on screen
ViewerRendered(t) ==
    /\ ~t.showPollModal /\ ~t.showResultsModal /\ t.showPreview
    /\ Len(t.generatedQuestions) > 0

\* generatedQuestions[currentQuestionIndex] is a question; the viewer reads
\* its fields when it renders
CurrentQuestionDefined(t) == t.currentQuestionIndex < Len(t.generatedQuestions)

\* splice(index, 1) on a copy of the list, index counted from 0
Splice(list, index) ==
    [k \in 1..(Len(list) - 1) |-> list[IF k <= index THEN k ELSE k + 1]]

\* the Launch Poll button of the viewer is disabled
LaunchDisabled(t) == t.currentQuestionIndex \in t.launchedQuestions

----------------------------------------------------------------------------
(* The state after construction.                                           *)

ServiceInit ==
    /\ rooms = <<>>
    /\ now = 0
    /\ call = NoCall
    /\ ret = Returned("none", <<>>, FALSE)
    /\ endCalls = <<>>
    /\ userDocs = Users
    /\ storeUp = TRUE

PagesInit ==
    /\ router = RouterInit
    /\ teacher = TeacherPollRoomInit
    /\ student = StudentPollRoomInit

Init == ServiceInit /\ PagesInit

----------------------------------------------------------------------------
(* Room lifecycle.                                                         *)

\* createRoom(name, teacherId)
CreateRoom(draw, name, teacherId) ==
    LET code == GenerateCode(draw)
        room == NewRoom(rooms, code, name, teacherId, now)
    IN /\ IF ~RoomCodeRequired(code)
          THEN /\ ret' = Thrown("createRoom", code, "ValidationError")
               /\ UNCHANGED <<rooms, now, endCalls>>
          ELSE IF ~RoomCodeUnique(rooms, code)
          THEN /\ ret' = Thrown("createRoom", code, "DuplicateKey")
               /\ UNCHANGED <<rooms, now, endCalls>>
          ELSE /\ rooms' = Append(rooms, room)
               /\ endCalls' = Append(endCalls, 0)
               /\ now' = now + 1
               /\ ret' = Returned("createRoom", code, room)
       /\ UNCHANGED <<call, userDocs, storeUp, pages>>

\* createRoom up to its await: the code is drawn and the document is built
\* in one synchronous run, then save() is in flight
CreateRoomStart(draw, name, teacherId) ==
    /\ call' = Append(call, [ op |-> "createRoom",
                              code |-> GenerateCode(draw),
                              name |-> name,
                              teacherId |-> teacherId,
                              date |-> now ])
    /\ ret' = Pending("createRoom", GenerateCode(draw))
    /\ UNCHANGED <<rooms, now, endCalls, userDocs, storeUp, pages>>

\* save() of the k-th createRoom in flight is decided by the store, and
\* createRoom returns the stored room or throws what save() threw
CreateRoomSave(k) ==
    /\ k \in 1..Len(call)
    /\ call[k].op = "createRoom"
    /\ LET c == call[k]
           room == NewRoom(rooms, c.code, c.name, c.teacherId, c.date)
       IN IF ~RoomCodeRequired(c.code)
          THEN /\ ret' = Thrown("createRoom", c.code, "ValidationError")
               /\ UNCHANGED <<rooms, now, endCalls>>
          ELSE IF ~RoomCodeUnique(rooms, c.code)
          THEN /\ ret' = Thrown("createRoom", c.code, "DuplicateKey")
               /\ UNCHANGED <<rooms, now, endCalls>>
          ELSE /\ rooms' = Append(rooms, room)
               /\ endCalls' = Append(endCalls, 0)
               /\ now' = now + 1
               /\ ret' = Returned("createRoom", c.code, room)
    /\ call' = SubSeq(call, 1, k - 1) \o SubSeq(call, k + 1, Len(call))
    /\ UNCHANGED <<userDocs, storeUp, pages>>

\* A variant of endRoom whose filter also asks for status 'active'
EndRoomActiveOnly(code) ==
    LET i == FindOne(rooms, code)
    IN /\ IF i = 0 \/ rooms[i].status # "active"
          THEN /\ ret' = Returned("endRoom", code, FALSE)
               /\ UNCHANGED <<rooms, endCalls>>
          ELSE /\ rooms' = [rooms EXCEPT ![i] = EndUpdate(@)]
               /\ endCalls' = [endCalls EXCEPT ![i] = Min(@ + 1, MaxEndCalls)]
               /\ ret' = Returned("endRoom", code, TRUE)
       /\ UNCHANGED <<now, call, userDocs, storeUp, pages>>

\* A variant of endRoom whose filter takes the code in upper case
EndRoomAnyCase(code) ==
    LET i == FindOne(rooms, ToUpperCase(code))
    IN /\ IF i = 0
          THEN /\ ret' = Returned("endRoom", code, FALSE)
               /\ UNCHANGED <<rooms, endCalls>>
          ELSE /\ rooms' = [rooms EXCEPT ![i] = EndUpdate(@)]
               /\ endCalls' = [endCalls EXCEPT ![i] = Min(@ + 1, MaxEndCalls)]
               /\ ret' = Returned("endRoom", code, TRUE)
       /\ UNCHANGED <<now, call, userDocs, storeUp, pages>>

\* endRoom(code)
EndRoom(code) ==
    LET i == FindOne(rooms, code)
    IN /\ IF i = 0
          THEN /\ ret' = Returned("endRoom", code, FALSE)
               /\ UNCHANGED <<rooms, endCalls>>
          ELSE /\ rooms' = [rooms EXCEPT ![i] = EndUpdate(@)]
               /\ endCalls' = [endCalls EXCEPT ![i] = Min(@ + 1, MaxEndCalls)]
               /\ ret' = Returned("endRoom", code, TRUE)
       /\ UNCHANGED <<now, call, userDocs, storeUp, pages>>

\* A variant of isRoomValid that looks the code up in upper case
IsRoomValidAnyCase(store, code) ==
    LET i == FindOne(store, ToUpperCase(code))
    IN i # 0 /\ StatusToLowerCase(store[i].status) = "active"

\* isRoomValid(code), as a function of the collection
IsRoomValid(store, code) ==
    LET i == FindOne(store, code)
    IN i # 0 /\ StatusToLowerCase(store[i].status) = "active"

\* A variant of isRoomEnded that compares with another literal
IsRoomEndedOtherLiteral(store, code) ==
    LET i == FindOne(store, code)
    IN IF i # 0 THEN store[i].status = "Ended" ELSE FALSE

\* isRoomEnded(code), as a function of the collection
IsRoomEnded(store, code) ==
    LET i == FindOne(store, code)
    IN IF i # 0 THEN store[i].status = "ended" ELSE FALSE

\* A variant of canJoinRoom that lets students into any stored room
CanJoinRoomAnyStatus(store, code) == FindOne(store, code) # 0

\* canJoinRoom(code), as a function of the collection
CanJoinRoom(store, code) ==
    LET i == FindOne(store, code)
    IN i # 0 /\ store[i].status = "active"

IsRoomValidCall(code) ==
    /\ ret' = Returned("isRoomValid", code, IsRoomValid(rooms, code))
    /\ UNCHANGED <<rooms, now, call, endCalls, userDocs, storeUp, pages>>

IsRoomEndedCall(code) ==
    /\ ret' = Returned("isRoomEnded", code, IsRoomEnded(rooms, code))
    /\ UNCHANGED <<rooms, now, call, endCalls, userDocs, storeUp, pages>>

\* getRoomByCode(code)
GetRoomByCode(code) ==
    LET i == FindOne(rooms, code)
    IN /\ ret' = Returned("getRoomByCode", code, IF i = 0 THEN Absent ELSE Present(rooms[i]))
       /\ UNCHANGED <<rooms, now, call, endCalls, userDocs, storeUp, pages>>

\* Room.find(query): the matching documents in natural order
Find(store, Matches(_)) == SelectSeq(store, Matches)

\* .sort({ createdAt: -1 }): x goes before the first document created
\* strictly earlier
InsertByCreatedAt(sorted, x) ==
    LET after == { i \in 1..Len(sorted) : sorted[i].createdAt[1] < x.createdAt[1] }
        at == IF after = {} THEN Len(sorted) + 1
              ELSE CHOOSE i \in after : \A j \in after : i <= j
    IN SubSeq(sorted, 1, at - 1) \o <<x>> \o SubSeq(sorted, at, Len(sorted))

RECURSIVE SortByCreatedAtFrom(_, _, _)
SortByCreatedAtFrom(sorted, list, i) ==
    IF i > Len(list) THEN sorted
    ELSE SortByCreatedAtFrom(InsertByCreatedAt(sorted, list[i]), list, i + 1)

SortByCreatedAtDesc(list) == SortByCreatedAtFrom(<<>>, list, 1)

\* getRoomsByTeacher(teacherId, status?): status is Absent or Present(s)
GetRoomsByTeacher(teacherId, status) ==
    LET Matches(r) == /\ r.teacherId = teacherId
                      /\ status # Absent => r.status = status[1]
    IN /\ ret' = Returned("getRoomsByTeacher", <<teacherId, status>>,
                          SortByCreatedAtDesc(Find(rooms, Matches)))
       /\ UNCHANGED <<rooms, now, call, endCalls, userDocs, storeUp, pages>>

\* getRoomsByTeacherAndStatus(teacherId, status)
GetRoomsByTeacherAndStatus(teacherId, status) ==
    LET Matches(r) == r.teacherId = teacherId /\ r.status = status
    IN /\ ret' = Returned("getRoomsByTeacherAndStatus", <<teacherId, status>>,
                          Find(rooms, Matches))
       /\ UNCHANGED <<rooms, now, call, endCalls, userDocs, storeUp, pages>>

\* getAllRooms()
GetAllRooms ==
    LET Matches(r) == TRUE
    IN /\ ret' = Returned("getAllRooms", <<>>, Find(rooms, Matches))
       /\ UNCHANGED <<rooms, now, call, endCalls, userDocs, storeUp, pages>>

\* getActiveRooms()
GetActiveRooms ==
    LET Matches(r) == r.status = "active"
    IN /\ ret' = Returned("getActiveRooms", <<>>, Find(rooms, Matches))
       /\ UNCHANGED <<rooms, now, call, endCalls, userDocs, storeUp, pages>>

\* getEndedRooms()
GetEndedRooms ==
    LET Matches(r) == r.status = "ended"
    IN /\ ret' = Returned("getEndedRooms", <<>>, Find(rooms, Matches))
       /\ UNCHANGED <<rooms, now, call, endCalls, userDocs, storeUp, pages>>

CanJoinRoomCall(code) ==
    /\ ret' = Returned("canJoinRoom", code, CanJoinRoom(rooms, code))
    /\ UNCHANGED <<rooms, now, call, endCalls, userDocs, storeUp, pages>>

----------------------------------------------------------------------------
(* Polls and answers. The poll service that stores them lies outside the  *)
(* room service; these two steps follow the data model's lifecycle: a      *)
(* poll is appended to an active room's polls, an answer to the answers of *)
(* a poll of an active room.                                               *)

NewPoll(id, question, correct, date) ==
    [ _id |-> id,
      question |-> question,
      options |-> <<"opt0", "opt1">>,
      correctOptionIndex |-> correct,
      timer |-> 30,
      createdAt |-> Present(date),
      answers |-> <<>> ]

NewAnswer(userId, answerIndex, date) ==
    [ userId |-> userId, answerIndex |-> answerIndex, answeredAt |-> Present(date) ]

AddPoll(code, question, correct) ==
    LET i == FindOne(rooms, code)
    IN /\ i # 0
       /\ rooms[i].status = "active"
       /\ question = Questions[Len(rooms[i].polls) + 1]
       /\ rooms' = [rooms EXCEPT ![i].polls =
                        Append(@, NewPoll(Len(@) + 1, question, correct, now))]
       /\ ret' = Returned("addPoll", code, TRUE)
       /\ UNCHANGED <<now, call, endCalls, userDocs, storeUp, pages>>

SubmitAnswer(code, k, userId, answerIndex) ==
    LET i == FindOne(rooms, code)
    IN /\ i # 0
       /\ rooms[i].status = "active"
       /\ k \in 1..Len(rooms[i].polls)
       /\ rooms' = [rooms EXCEPT ![i].polls[k].answers =
                        Append(@, NewAnswer(userId, answerIndex, now))]
       /\ ret' = Returned("submitAnswer", code, TRUE)
       /\ UNCHANGED <<now, call, endCalls, userDocs, storeUp, pages>>

----------------------------------------------------------------------------
(* getPollAnalysis.                                                        *)

\* participantsMap: a JavaScript Map keeps its entries in insertion order, so
\* it is the sequence of its values; the key of an entry is its userId.
MapHas(map, userId) == \E i \in 1..Len(map) : map[i].userId = userId

NewParticipant(userId) ==
    [ userId |-> userId, correct |-> 0, wrong |-> 0, score |-> 0, timeTaken |-> 0 ]

\* A variant of MapEnsure that sets a fresh entry for every answer
MapEnsureAlways(map, userId) == Append(map, NewParticipant(userId))

\* if (!participantsMap.has(answer.userId)) participantsMap.set(...)
MapEnsure(map, userId) ==
    IF MapHas(map, userId) THEN map ELSE Append(map, NewParticipant(userId))

\* A variant of Tally that takes 1 off the score for a wrong answer
TallyWrongByOne(participant, answer, poll) ==
    IF answer.answerIndex = poll.correctOptionIndex
    THEN [participant EXCEPT !.correct = @ + 1, !.score = @ + 5]
    ELSE [participant EXCEPT !.wrong = @ + 1, !.score = @ - 1]

\* A variant of Tally that counts a wrong answer without taking points off
TallyNoPenalty(participant, answer, poll) ==
    IF answer.answerIndex = poll.correctOptionIndex
    THEN [participant EXCEPT !.correct = @ + 1, !.score = @ + 5]
    ELSE [participant EXCEPT !.wrong = @ + 1]

\* the if/else on answer.answerIndex === poll.correctOptionIndex
Tally(participant, answer, poll) ==
    IF answer.answerIndex = poll.correctOptionIndex
    THEN [participant EXCEPT !.correct = @ + 1, !.score = @ + 5]
    ELSE [participant EXCEPT !.wrong = @ + 1, !.score = @ - 2]

\* the body of the inner loop, for one answer
ProcessAnswer(map, answer, poll) ==
    LET m == MapEnsure(map, answer.userId)
    IN [i \in 1..Len(m) |->
            IF m[i].userId = answer.userId THEN Tally(m[i], answer, poll) ELSE m[i]]

\* A variant of the inner loop that takes one answer per student and poll
RECURSIVE ProcessAnswersOncePerStudent(_, _, _)
ProcessAnswersOncePerStudent(map, poll, j) ==
    IF j > Len(poll.answers) THEN map
    ELSE IF \E h \in 1..(j - 1) : poll.answers[h].userId = poll.answers[j].userId
    THEN ProcessAnswersOncePerStudent(map, poll, j + 1)
    ELSE ProcessAnswersOncePerStudent(ProcessAnswer(map, poll.answers[j], poll), poll, j + 1)

\* for (const answer of poll.answers), from answer j on
RECURSIVE ProcessAnswers(_, _, _)
ProcessAnswers(map, poll, j) ==
    IF j > Len(poll.answers) THEN map
    ELSE ProcessAnswers(ProcessAnswer(map, poll.answers[j], poll), poll, j + 1)

\* for (const poll of room.polls), from poll k on
RECURSIVE ProcessPolls(_, _, _)
ProcessPolls(map, polls, k) ==
    IF k > Len(polls) THEN map
    ELSE ProcessPolls(ProcessAnswers(map, polls[k], 1), polls, k + 1)

\* Array.from(participantsMap.keys())
MapKeys(map) == [i \in 1..Len(map) |-> map[i].userId]

\* userModel.find({ firebaseUID: { $in: userIds } }, 'firebaseUID firstName')
FindUsers(userIds) ==
    { u \in userDocs : \E i \in 1..Len(userIds) : userIds[i] = u.firebaseUID }

\* user?.firstName ?? 'Anonymous', user = users.find(u => u.firebaseUID === p.userId)
NameOf(users, userId) ==
    IF \E u \in users : u.firebaseUID = userId
    THEN (CHOOSE u \in users : u.firebaseUID = userId).firstName
    ELSE "Anonymous"

CeilDiv(a, b) == IF a % b = 0 THEN a \div b ELSE (a \div b) + 1

\* the record the map callback returns for one participant
ParticipantRecord(users, p) ==
    [ name |-> NameOf(users, p.userId),
      score |-> p.score,
      correct |-> p.correct,
      wrong |-> p.wrong,
      timeTaken |-> IF p.timeTaken > 0 THEN <<CeilDiv(p.timeTaken, 60), " min">>
                    ELSE <<"N/A">> ]

\* A variant of the comparator that orders by ascending score
CompareScoreAscending(a, b) == a.score - b.score

\* the comparator (a, b) => b.score - a.score
CompareScore(a, b) == b.score - a.score

\* A variant of the sort that puts x before the elements it ties with
InsertSortedBeforeTies(sorted, x) ==
    LET after == { i \in 1..Len(sorted) : CompareScore(x, sorted[i]) <= 0 }
        at == IF after = {} THEN Len(sorted) + 1
              ELSE CHOOSE i \in after : \A j \in after : i <= j
    IN SubSeq(sorted, 1, at - 1) \o <<x>> \o SubSeq(sorted, at, Len(sorted))

\* Array.prototype.sort is stable: x goes before the first element that the
\* comparator orders strictly after it
InsertSorted(sorted, x) ==
    LET after == { i \in 1..Len(sorted) : CompareScore(x, sorted[i]) < 0 }
        at == IF after = {} THEN Len(sorted) + 1
              ELSE CHOOSE i \in after : \A j \in after : i <= j
    IN SubSeq(sorted, 1, at - 1) \o <<x>> \o SubSeq(sorted, at, Len(sorted))

RECURSIVE SortFrom(_, _, _)
SortFrom(sorted, list, i) ==
    IF i > Len(list) THEN sorted
    ELSE SortFrom(InsertSorted(sorted, list[i]), list, i + 1)

\* participants.sort((a, b) => b.score - a.score)
SortParticipants(list) == SortFrom(<<>>, list, 1)

\* poll.answers.filter(a => a.answerIndex === poll.correctOptionIndex).length
CorrectCount(poll) ==
    LET IsCorrect(a) == a.answerIndex = poll.correctOptionIndex
    IN Len(SelectSeq(poll.answers, IsCorrect))

\* A variant of QuestionStats that counts every answer of the poll
QuestionStatsAllAnswers(polls) ==
    [k \in 1..Len(polls) |->
        [ text |-> polls[k].question, correctCount |-> Len(polls[k].answers) ]]

\* room.polls.map((poll) => ({ text, correctCount }))
QuestionStats(polls) ==
    [k \in 1..Len(polls) |->
        [ text |-> polls[k].question, correctCount |-> CorrectCount(polls[k]) ]]

\* A variant of the duration field that takes the whole minutes gone by
DurationRoundedDown(room) ==
    IF room.endedAt # Absent /\ room.createdAt # Absent
    THEN <<(room.endedAt[1] - room.createdAt[1]) \div 60000, " mins">>
    ELSE <<"N/A">>

\* the duration field; getTime() is the Date in milliseconds
Duration(room) ==
    IF room.endedAt # Absent /\ room.createdAt # Absent
    THEN <<CeilDiv(room.endedAt[1] - room.createdAt[1], 60000), " mins">>
    ELSE <<"N/A">>

\* the object getPollAnalysis returns
Report(room, map, users) ==
    [ id |-> room._id,
      name |-> room.name,
      createdAt |-> room.createdAt,
      duration |-> Duration(room),
      participants |->
          SortParticipants([i \in 1..Len(map) |-> ParticipantRecord(users, map[i])]),
      questions |-> QuestionStats(room.polls) ]

\* A variant of getPollAnalysis that reports on a missing room as on a room
\* with no polls
GetPollAnalysisEmptyReport(code) ==
    LET i == FindOne(rooms, code)
        room == IF i = 0 THEN NewRoom(<<>>, code, "", "", now) ELSE rooms[i]
        map == ProcessPolls(<<>>, room.polls, 1)
        users == FindUsers(MapKeys(map))
    IN /\ ret' = Returned("getPollAnalysis", code, Report(room, map, users))
       /\ UNCHANGED <<rooms, now, call, endCalls, userDocs, storeUp, pages>>

\* A variant of getPollAnalysis that takes the answers out of the room it
\* has reported on
GetPollAnalysisConsuming(code) ==
    LET i == FindOne(rooms, code)
    IN /\ IF i = 0
          THEN /\ ret' = Thrown("getPollAnalysis", code, "Room not found")
               /\ UNCHANGED rooms
          ELSE LET map == ProcessPolls(<<>>, rooms[i].polls, 1)
                   users == FindUsers(MapKeys(map))
               IN /\ ret' = Returned("getPollAnalysis", code, Report(rooms[i], map, users))
                  /\ rooms' = [rooms EXCEPT ![i].polls =
                                  [k \in 1..Len(@) |-> [@[k] EXCEPT !.answers = <<>>]]]
       /\ UNCHANGED <<now, call, endCalls, userDocs, storeUp, pages>>

\* getPollAnalysis(roomCode), the two awaits resolved in turn with nothing
\* run in between
GetPollAnalysis(code) ==
    LET i == FindOne(rooms, code)
    IN /\ IF i = 0
          THEN ret' = Thrown("getPollAnalysis", code, "Room not found")
          ELSE LET map == ProcessPolls(<<>>, rooms[i].polls, 1)
                   users == FindUsers(MapKeys(map))
               IN ret' = Returned("getPollAnalysis", code, Report(rooms[i], map, users))
       /\ UNCHANGED <<rooms, now, call, endCalls, userDocs, storeUp, pages>>

\* getPollAnalysis(roomCode) up to its second await: the room is read, the
\* loops have run, the user lookup is under way
GetPollAnalysisStart(code) ==
    LET i == FindOne(rooms, code)
    IN /\ call = NoCall
       /\ IF i = 0
          THEN /\ ret' = Thrown("getPollAnalysis", code, "Room not found")
               /\ UNCHANGED call
          ELSE /\ call' = <<[ code |-> code,
                              room |-> rooms[i],
                              participantsMap |-> ProcessPolls(<<>>, rooms[i].polls, 1) ]>>
               /\ ret' = Pending("getPollAnalysis", code)
       /\ UNCHANGED <<rooms, now, endCalls, userDocs, storeUp, pages>>

\* A variant of the second half of getPollAnalysis that reads the room again
\* for the questions of the report
GetPollAnalysisFinishRereads ==
    /\ call # NoCall
    /\ LET c == call[1]
           users == FindUsers(MapKeys(c.participantsMap))
           latest == rooms[FindOne(rooms, c.code)]
       IN ret' = Returned("getPollAnalysis", c.code,
                          [Report(c.room, c.participantsMap, users)
                              EXCEPT !.questions = QuestionStats(latest.polls)])
    /\ call' = NoCall
    /\ UNCHANGED <<rooms, now, endCalls, userDocs, storeUp, pages>>

\* getPollAnalysis from the answer of the user lookup to its return
GetPollAnalysisFinish ==
    /\ call # NoCall
    /\ LET c == call[1]
           users == FindUsers(MapKeys(c.participantsMap))
       IN ret' = Returned("getPollAnalysis", c.code,
                          Report(c.room, c.participantsMap, users))
    /\ call' = NoCall
    /\ UNCHANGED <<rooms, now, endCalls, userDocs, storeUp, pages>>

----------------------------------------------------------------------------
(* The document store out of reach. No method of the service catches what  *)
(* an awaited query rejects with, so the call rejects with the same error. *)

StoreGoesDown ==
    /\ storeUp
    /\ storeUp' = FALSE
    /\ ret' = Returned("store", <<>>, FALSE)
    /\ UNCHANGED <<rooms, now, call, endCalls, userDocs, pages>>

StoreComesUp ==
    /\ ~storeUp
    /\ storeUp' = TRUE
    /\ ret' = Returned("store", <<>>, TRUE)
    /\ UNCHANGED <<rooms, now, call, endCalls, userDocs, pages>>

\* The methods that begin with one awaited query on the Room collection
RoomQueryOps == {"isRoomValid", "isRoomEnded", "canJoinRoom", "endRoom", "getPollAnalysis"}

\* A variant of RoomQueryFails that catches the error and answers false
RoomQueryFailsAsFalse(op, code) ==
    /\ ~storeUp
    /\ ret' = Returned(op, code, FALSE)
    /\ UNCHANGED <<rooms, now, call, endCalls, userDocs, storeUp, pages>>

\* await Room.findOne(...) / findOneAndUpdate(...) rejects
RoomQueryFails(op, code) ==
    /\ ~storeUp
    /\ ret' = Thrown(op, code, "MongoNetworkError")
    /\ UNCHANGED <<rooms, now, call, endCalls, userDocs, storeUp, pages>>

\* await this.userModel.find(...) rejects in a getPollAnalysis call that has
\* read its room
UserQueryFails ==
    /\ ~storeUp
    /\ call # NoCall
    /\ ret' = Thrown("getPollAnalysis", call[1].code, "MongoNetworkError")
    /\ call' = NoCall
    /\ UNCHANGED <<rooms, now, endCalls, userDocs, storeUp, pages>>

----------------------------------------------------------------------------
(* Navigation in the web client.                                           *)

\* the user opens a route; the auth store keeps its state
Navigate(path) ==
    /\ router.landed
    /\ router' = NavigationTo(router.auth, path)
    /\ UNCHANGED <<service, teacher, student>>

\* the router runs the beforeLoad of the location: a redirect is followed,
\* otherwise the location is loaded
Load ==
    /\ ~router.landed
    /\ router.hops < MaxHops
    /\ LET to == BeforeLoad(router.path, router.auth)
       IN IF to = Absent
          THEN router' = [router EXCEPT !.landed = TRUE]
          ELSE router' = [router EXCEPT !.path = to[1], !.hops = @ + 1]
    /\ UNCHANGED <<service, teacher, student>>

----------------------------------------------------------------------------
(* The student's poll room page: its event handlers and timers.            *)

\* the interval callback, every second: each timer goes down to 0 at least
TimerTick ==
    /\ student' = [student EXCEPT !.pollTimers =
                      [p \in PollIds |-> IF @[p] > 0 THEN @[p] - 1 ELSE 0]]
    /\ UNCHANGED <<service, router, teacher>>

\* a click on option index of poll p
SelectOption(p, index) ==
    /\ IsActivePoll(student, p)
    /\ ~ButtonsDisabled(student, p)
    /\ student' = [student EXCEPT !.selectedOptions[p] = Present(index)]
    /\ UNCHANGED <<service, router, teacher>>

\* a click on Submit Vote of poll p: submitAnswer sets a timeout of 300 ms
\* that carries the option selected now
ClickSubmit(p) ==
    /\ IsActivePoll(student, p)
    /\ ~ButtonsDisabled(student, p)
    /\ student.selectedOptions[p] # Absent
    /\ student' = [student EXCEPT !.timeouts =
                      Append(@, [pollId |-> p, answerIndex |-> student.selectedOptions[p][1]])]
    /\ UNCHANGED <<service, router, teacher>>

\* the oldest timeout fires: setAnsweredPolls(prev => ({ ...prev, [pollId]: answerIndex }))
CommitAnswer ==
    /\ student.timeouts # <<>>
    /\ LET t == Head(student.timeouts)
       IN student' = [student EXCEPT !.answeredPolls[t.pollId] = Present(t.answerIndex),
                                     !.timeouts = Tail(@)]
    /\ UNCHANGED <<service, router, teacher>>

----------------------------------------------------------------------------
(* The teacher's poll room page: recording and the chunk queue.            *)

\* handleRecordingToggle() while not recording: the recognition starts and
\* keeps the onend callback of the render it was created in
StartRecording ==
    /\ ~teacher.isRecording
    /\ teacher.recognition = Absent
    /\ ~teacher.showPollModal /\ ~teacher.showResultsModal /\ ~teacher.showPreview
    /\ LET started == [teacher EXCEPT !.isRecording = TRUE,
                                      !.interimTranscript = 0,
                                      !.recognition = Present(DisplayWords(teacher)),
                                      !.recordings = @ + 1]
       IN teacher' = RunEffects(started, TRUE, teacher.interimTranscript # 0)
    /\ UNCHANGED <<service, router, student>>

\* recognition.onresult: final words are appended to liveTranscript, the
\* interim words replace interimTranscript
RecognitionOnResult(final, interim) ==
    /\ teacher.recognition # Absent
    /\ final + interim > 0
    /\ LET heard == [teacher EXCEPT !.liveTranscript = @ + final,
                                    !.interimTranscript = interim]
       IN teacher' = RunEffects(heard, FALSE, TRUE)
    /\ UNCHANGED <<service, router, student>>

\* handleRecordingToggle() while recording, up to its wait loop
StopRecording ==
    /\ teacher.isRecording
    /\ ~teacher.showPollModal /\ ~teacher.showResultsModal /\ ~teacher.showPreview
    /\ teacher' = [FlushRemaining([teacher EXCEPT !.isRecording = FALSE],
                                  DisplayWords(teacher))
                     EXCEPT !.waiting = @ + 1]
    /\ UNCHANGED <<service, router, student>>

\* recognition.onend: handleRecordingToggle(true) of the render the
\* recognition was created in, up to its wait loop
RecognitionOnEnd ==
    /\ teacher.recognition # Absent
    /\ teacher' = [FlushRemaining([teacher EXCEPT !.isRecording = FALSE,
                                                  !.recognition = Absent],
                                  teacher.recognition[1])
                     EXCEPT !.waiting = @ + 1]
    /\ UNCHANGED <<service, router, student>>

\* the request of loop i completes: a response with n questions, or (ok
\* false) a failure that is caught and logged; the loop goes on
RequestCompletes(i, ok, n) ==
    /\ i \in 1..Len(teacher.requests)
    /\ LET rest == [k \in 1..(Len(teacher.requests) - 1) |->
                      teacher.requests[IF k < i THEN k ELSE k + 1]]
           answered == IF ok /\ n > 0
                       THEN [teacher EXCEPT !.queuedGeneratedQuestions = @ \o NewQuestions(teacher, n),
                                            !.generated = @ + n,
                                            !.requests = rest]
                       ELSE IF ok THEN [teacher EXCEPT !.requests = rest]
                       ELSE [teacher EXCEPT !.requests = rest,
                                            !.failed = Append(@, teacher.requests[i])]
       IN teacher' = QueueLoop(answered)
    /\ UNCHANGED <<service, router, student>>

\* a waiting handleRecordingToggle wakes from its 200 ms sleep and finds
\* the queue idle: it moves the queued questions into generatedQuestions
WaitLoopEnds ==
    /\ teacher.waiting > 0
    /\ ~teacher.processingQueue
    /\ teacher.pendingTextChunks = <<>>
    /\ teacher' =
         IF teacher.queuedGeneratedQuestions # <<>>
         THEN [teacher EXCEPT !.generatedQuestions = @ \o teacher.queuedGeneratedQuestions,
                              !.showPreview = TRUE,
                              !.queuedGeneratedQuestions = <<>>,
                              !.waiting = @ - 1]
         ELSE [teacher EXCEPT !.waiting = @ - 1]
    /\ UNCHANGED <<service, router, student>>

----------------------------------------------------------------------------
(* The teacher's poll room page: generating, viewing and launching         *)
(* questions.                                                              *)

\* handleGenerateClick: generateQuestions up to its await; the transcript
\* may also come from an upload, so it is not looked at
GenerateStart ==
    /\ PanelRendered(teacher)
    /\ ~teacher.isRecording
    /\ ~teacher.isGenerating
    /\ teacher' = [teacher EXCEPT !.isGenerating = TRUE]
    /\ UNCHANGED <<service, router, student>>

\* generateQuestions after its await: a response with n questions replaces
\* the list, a failure or an empty response only shows a toast
GenerateFinish(ok, n) ==
    /\ teacher.isGenerating
    /\ teacher' =
         IF ok /\ n > 0
         THEN [teacher EXCEPT !.launchedQuestions = {},
                              !.generatedQuestions = NewQuestions(teacher, n),
                              !.generated = @ + n,
                              !.showPreview = TRUE,
                              !.isGenerating = FALSE]
         ELSE [teacher EXCEPT !.isGenerating = FALSE]
    /\ UNCHANGED <<service, router, student>>

\* the viewer's previous (step -1) and next (step 1) buttons
ShowQuestion(step) ==
    /\ ViewerRendered(teacher)
    /\ CurrentQuestionDefined(teacher)
    /\ Len(teacher.generatedQuestions) > 1
    /\ teacher' = [teacher EXCEPT !.currentQuestionIndex =
                      (@ + step + Len(teacher.generatedQuestions))
                         % Len(teacher.generatedQuestions)]
    /\ UNCHANGED <<service, router, student>>

\* the viewer's Delete button, confirmed
DeleteCurrentQuestion ==
    /\ ViewerRendered(teacher)
    /\ CurrentQuestionDefined(teacher)
    /\ LET newQuestions == Splice(teacher.generatedQuestions, teacher.currentQuestionIndex)
       IN teacher' = [teacher EXCEPT
                        !.generatedQuestions = newQuestions,
                        !.currentQuestionIndex =
                            IF @ >= Len(newQuestions)
                            THEN IF Len(newQuestions) - 1 > 0 THEN Len(newQuestions) - 1 ELSE 0
                            ELSE @]
    /\ UNCHANGED <<service, router, student>>

\* the delete button of question idx in the Create Poll modal
DeleteListedQuestion(idx) ==
    /\ teacher.showPollModal
    /\ idx < Len(teacher.generatedQuestions)
    /\ teacher' = [teacher EXCEPT !.generatedQuestions = Splice(@, idx)]
    /\ UNCHANGED <<service, router, student>>

\* handleLaunchPoll, confirmed: the current question is posted as a poll
\* and its index is remembered
HandleLaunchPoll ==
    /\ ViewerRendered(teacher)
    /\ CurrentQuestionDefined(teacher)
    /\ ~LaunchDisabled(teacher)
    /\ teacher' = [teacher EXCEPT
                     !.createdPolls = Append(@, teacher.generatedQuestions[teacher.currentQuestionIndex + 1]),
                     !.launchedQuestions = @ \cup {teacher.currentQuestionIndex}]
    /\ UNCHANGED <<service, router, student>>

HandleCreateManualPoll ==
    /\ teacher' = [teacher EXCEPT !.showPollModal = TRUE, !.showResultsModal = FALSE]
    /\ UNCHANGED <<service, router, student>>

HandlePollResultsbutton ==
    /\ teacher' = [teacher EXCEPT !.showResultsModal = TRUE, !.showPollModal = FALSE]
    /\ UNCHANGED <<service, router, student>>

ClearGenAIData ==
    /\ PanelRendered(teacher)
    /\ teacher' = [teacher EXCEPT !.generatedQuestions = <<>>,
                                  !.showPreview = FALSE,
                                  !.liveTranscript = 0,
                                  !.interimTranscript = 0,
                                  !.isRecording = FALSE,
                                  !.processedWords = 0,
                                  !.pendingTextChunks = <<>>,
                                  !.queuedGeneratedQuestions = <<>>]
    /\ UNCHANGED <<service, router, student>>

----------------------------------------------------------------------------
(* Specifications.                                                         *)

\* The room lifecycle: every generated code, every operation, few polls.
Next ==
    \/ \E x \in Creations, n \in Names : CreateRoom(x[1], n, x[2])
    \/ \E c \in Codes : EndRoom(c)
    \/ \E c \in Codes : IsRoomValidCall(c)
    \/ \E c \in Codes : IsRoomEndedCall(c)
    \/ \E c \in Codes : CanJoinRoomCall(c)
    \/ \E c \in Codes : GetRoomByCode(c)
    \/ \E t \in TeacherIds, f \in {Absent} \cup { Present(x) : x \in StatusFilters } :
            GetRoomsByTeacher(t, f)
    \/ \E t \in TeacherIds, f \in StatusFilters : GetRoomsByTeacherAndStatus(t, f)
    \/ GetAllRooms
    \/ GetActiveRooms
    \/ GetEndedRooms
    \/ /\ NPolls(rooms) < MaxPolls
       /\ \E c \in Codes, k \in 1..MaxPolls : AddPoll(c, Questions[k], 0)
    \/ /\ NAnswers(rooms) < MaxAnswers
       /\ \E c \in Codes, k \in 1..MaxPolls : SubmitAnswer(c, k, "u1", 0)
    \/ \E c \in Codes : GetPollAnalysis(c)

Spec == Init /\ [][Next]_vars

\* The analysis of one room while it is active: one generated code, more
\* polls, each with its correct option configured, and more answers.
AnalysisDraws == { <<"0", ".", "i">> }
AnalysisCodes == { GenerateCode(d) : d \in AnalysisDraws }

NextAnalysis ==
    \/ \E d \in AnalysisDraws, n \in Names : CreateRoom(d, n, "teacher-1")
    \/ /\ NPolls(rooms) < MaxRoomPolls
       /\ \E c \in AnalysisCodes, k \in 1..MaxRoomPolls, x \in ConfiguredIndexes :
            AddPoll(c, Questions[k], x)
    \/ /\ NAnswers(rooms) < MaxRoomAnswers
       /\ \E c \in AnalysisCodes, k \in 1..MaxRoomPolls, u \in UserIds, a \in AnswerIndexes :
            SubmitAnswer(c, k, u, a)
    \/ \E c \in AnalysisCodes : GetPollAnalysis(c)

SpecAnalysis == Init /\ [][NextAnalysis]_vars

\* Concurrent creation: createRoom calls overlap at their await, so their
\* saves reach the store in any order.
NextCreate ==
    \/ /\ Len(call) < MaxPending
       /\ \E x \in Creations, n \in Names : CreateRoomStart(x[1], n, x[2])
    \/ \E k \in 1..MaxPending : CreateRoomSave(k)
    \/ \E c \in Codes : EndRoom(c)
    \/ \E c \in Codes : GetRoomByCode(c)

SpecCreate == Init /\ [][NextCreate]_vars

\* The analysis of one room whose polls may have no correct option
\* configured, over every answerIndex an answer can store.
SentinelUserIds == {"u1", "u3"}

NextSentinel ==
    \/ \E d \in AnalysisDraws, n \in Names : CreateRoom(d, n, "teacher-1")
    \/ /\ NPolls(rooms) < MaxRoomPolls
       /\ \E c \in AnalysisCodes, k \in 1..MaxRoomPolls, x \in CorrectIndexes :
            AddPoll(c, Questions[k], x)
    \/ /\ NAnswers(rooms) < MaxRoomAnswers
       /\ \E c \in AnalysisCodes, k \in 1..MaxRoomPolls, u \in SentinelUserIds,
             a \in StoredAnswerIndexes : SubmitAnswer(c, k, u, a)
    \/ \E c \in AnalysisCodes : GetPollAnalysis(c)

SpecSentinel == Init /\ [][NextSentinel]_vars

\* The duration of a report, over the dates a stored room may carry: the
\* room is read raw (lean()), with the createdAt and endedAt it was stored
\* with, whatever stored them.
Times == {0, 1, 59999, 60000, 60001, 120000, 180001}
StoredDates == {Absent} \cup { Present(t) : t \in Times }

InitDuration ==
    /\ \E c \in StoredDates, e \in StoredDates, st \in StatusFilters, d \in AnalysisDraws :
          rooms = <<[NewRoom(<<>>, GenerateCode(d), "Algebra", "teacher-1", 0)
                        EXCEPT !.createdAt = c, !.endedAt = e, !.status = st]>>
    /\ now = 1
    /\ call = NoCall
    /\ ret = Returned("none", <<>>, FALSE)
    /\ endCalls = <<0>>
    /\ userDocs = Users
    /\ storeUp = TRUE
    /\ PagesInit

NextDuration ==
    \/ \E c \in AnalysisCodes : GetPollAnalysis(c)
    \/ \E c \in AnalysisCodes : EndRoom(c)

SpecDuration == InitDuration /\ [][NextDuration]_vars

\* The store going down and coming back under the methods that query the
\* Room collection; getPollAnalysis in its two round trips.
StorageCodes == AnalysisCodes \cup { <<"i">> }

NextStorage ==
    \/ /\ storeUp
       /\ \E d \in AnalysisDraws, n \in Names : CreateRoom(d, n, "teacher-1")
    \/ /\ storeUp
       /\ \E c \in StorageCodes : EndRoom(c)
    \/ /\ storeUp
       /\ \E c \in StorageCodes : IsRoomValidCall(c)
    \/ /\ storeUp
       /\ \E c \in StorageCodes : IsRoomEndedCall(c)
    \/ /\ storeUp
       /\ \E c \in StorageCodes : CanJoinRoomCall(c)
    \/ /\ storeUp
       /\ \E c \in StorageCodes : GetPollAnalysisStart(c)
    \/ /\ storeUp
       /\ GetPollAnalysisFinish
    \/ /\ storeUp
       /\ NPolls(rooms) < MaxPolls
       /\ \E c \in StorageCodes, k \in 1..MaxPolls : AddPoll(c, Questions[k], 0)
    \/ /\ storeUp
       /\ NAnswers(rooms) < MaxAnswers
       /\ \E c \in StorageCodes, k \in 1..MaxPolls : SubmitAnswer(c, k, "u1", 0)
    \/ StoreGoesDown
    \/ StoreComesUp
    \/ \E op \in RoomQueryOps, c \in StorageCodes : RoomQueryFails(op, c)
    \/ UserQueryFails

SpecStorage == Init /\ [][NextStorage]_vars

\* getPollAnalysis suspended at its user lookup while polls and answers
\* are stored in the room it has read.
SnapshotUserIds == {"u1", "u2"}

NextSnapshot ==
    \/ \E d \in AnalysisDraws, n \in Names : CreateRoom(d, n, "teacher-1")
    \/ /\ NPolls(rooms) < MaxPolls + 1
       /\ \E c \in AnalysisCodes, k \in 1..(MaxPolls + 1), x \in ConfiguredIndexes :
            AddPoll(c, Questions[k], x)
    \/ /\ NAnswers(rooms) < MaxAnswers + 1
       /\ \E c \in AnalysisCodes, k \in 1..(MaxPolls + 1), u \in SnapshotUserIds,
             a \in AnswerIndexes : SubmitAnswer(c, k, u, a)
    \/ \E c \in AnalysisCodes : GetPollAnalysisStart(c)
    \/ GetPollAnalysisFinish

SpecSnapshot == Init /\ [][NextSnapshot]_vars

\* Navigation from every starting route in every state of the auth store.
InitRouter ==
    /\ ServiceInit
    /\ \E a \in AuthStates, p \in StartPaths : router = NavigationTo(a, p)
    /\ teacher = TeacherPollRoomInit
    /\ student = StudentPollRoomInit

NextRouter ==
    \/ \E p \in StartPaths : Navigate(p)
    \/ Load

SpecRouter == InitRouter /\ [][NextRouter]_vars

\* The student's poll room: selections, submits, delayed commits and ticks
\* in any order.
NextStudent ==
    \/ TimerTick
    \/ \E p \in PollIds, i \in OptionIndexes : SelectOption(p, i)
    \/ /\ Len(student.timeouts) < MaxCommits
       /\ \E p \in PollIds : ClickSubmit(p)
    \/ CommitAnswer

SpecStudent == Init /\ [][NextStudent]_vars

\* The teacher's recording: starts, results, stops, responses and wake-ups
\* in any order.
NextRecording ==
    \/ /\ teacher.recordings < MaxRecordings
       /\ StartRecording
    \/ \E final \in FinalWords, interim \in InterimWords :
          /\ teacher.liveTranscript + final + interim <= MaxWords
          /\ RecognitionOnResult(final, interim)
    \/ /\ teacher.waiting < MaxWaiting
       /\ StopRecording
    \/ /\ teacher.waiting < MaxWaiting
       /\ RecognitionOnEnd
    \/ \E i \in 1..Len(teacher.requests), ok \in BOOLEAN, n \in QuestionCounts :
          /\ teacher.generated + n <= MaxGenerated
          /\ ~ok => n = 0
          /\ RequestCompletes(i, ok, n)
    \/ WaitLoopEnds

SpecRecording == Init /\ [][NextRecording]_vars

\* The chunk queue: the recording with whole checkpoints only, a final
\* result being one chunk of words, and at most one question a response.
NextQueue ==
    \/ /\ teacher.recordings < MaxRecordings
       /\ StartRecording
    \/ /\ teacher.liveTranscript + ChunkWords <= MaxWords
       /\ RecognitionOnResult(ChunkWords, 0)
    \/ /\ teacher.waiting < MaxWaiting
       /\ StopRecording
    \/ /\ teacher.waiting < MaxWaiting
       /\ RecognitionOnEnd
    \/ \E i \in 1..Len(teacher.requests), ok \in BOOLEAN :
          /\ ok => teacher.generated < MaxGenerated
          /\ RequestCompletes(i, ok, IF ok THEN 1 ELSE 0)
    \/ WaitLoopEnds

SpecQueue == Init /\ [][NextQueue]_vars

\* The generated questions: generating, viewing, deleting and launching.
NextQuestions ==
    \/ GenerateStart
    \/ \E ok \in BOOLEAN, n \in QuestionCounts :
          /\ teacher.generated + n <= MaxGenerated
          /\ GenerateFinish(ok, n)
    \/ \E step \in {-1, 1} : ShowQuestion(step)
    \/ DeleteCurrentQuestion
    \/ \E idx \in 0..(MaxGenerated - 1) : DeleteListedQuestion(idx)
    \/ HandleLaunchPoll
    \/ HandleCreateManualPoll
    \/ HandlePollResultsbutton
    \/ ClearGenAIData

\* with questions from both sources: the recording's queue and Generate
NextViewer ==
    \/ /\ teacher.recordings < MaxRecordings
       /\ StartRecording
    \/ /\ teacher.liveTranscript + ChunkWords <= MaxWords
       /\ Len(teacher.enqueued) < MaxEnqueued
       /\ RecognitionOnResult(ChunkWords, 0)
    \/ /\ teacher.waiting < MaxWaiting
       /\ StopRecording
    \/ /\ teacher.waiting < MaxWaiting
       /\ RecognitionOnEnd
    \/ \E i \in 1..Len(teacher.requests), ok \in BOOLEAN :
          /\ ok => teacher.generated < MaxGenerated
          /\ RequestCompletes(i, ok, IF ok THEN 1 ELSE 0)
    \/ WaitLoopEnds
    \/ NextQuestions

SpecViewer == Init /\ [][NextViewer]_vars

\* The same with the scheduling the browser gives: a request in flight
\* completes, and a sleeping wait loop wakes every 200 ms.
SpecQueueFair ==
    /\ SpecQueue
    /\ WF_vars(\E i \in 1..Len(teacher.requests), ok \in BOOLEAN :
                  /\ ok => teacher.generated < MaxGenerated
                  /\ RequestCompletes(i, ok, IF ok THEN 1 ELSE 0))
    /\ WF_vars(WaitLoopEnds)

----------------------------------------------------------------------------
(* Properties of the room lifecycle, under Spec.                           *)

\* The stored room with exactly this code, if any (by the stored codes, not
\* by the lookup the service uses)
HasRoom(code) == \E i \in 1..Len(rooms) : rooms[i].roomCode = code
RoomsWith(code) == { i \in 1..Len(rooms) : rooms[i].roomCode = code }

\* C1: a room's status only moves from 'active' to 'ended': in every step, a
\* stored room is still stored, a status is 'active' or 'ended', and a room
\* that is 'ended' before the step is 'ended' after it.
StatusOneWay ==
    [][ /\ Len(rooms') >= Len(rooms)
        /\ \A i \in 1..Len(rooms) :
            /\ rooms'[i]._id = rooms[i]._id
            /\ rooms'[i].status \in {"active", "ended"}
            /\ rooms[i].status = "ended" => rooms'[i].status = "ended" ]_vars

\* C1, witness: createRoom has drawn the code of an ended room again (and was
\* refused), the room is still ended.
StatusOneWayWitness ==
    /\ ret.op = "createRoom"
    /\ ret.kind = "throw"
    /\ \E i \in 1..Len(rooms) :
        /\ rooms[i].roomCode = ret.code
        /\ rooms[i].status = "ended"
        /\ endCalls[i] >= 2

\* C2: endRoom on the code of a stored room returns true and the room's
\* status is 'ended' after the call, on the first call and on every later
\* one; a room that an endRoom call has matched stays 'ended'.
EndRoomIdempotent ==
    /\ (ret.op = "endRoom" /\ HasRoom(ret.code)) =>
            /\ ret.kind = "return"
            /\ ret.val = TRUE
            /\ \A i \in RoomsWith(ret.code) : rooms[i].status = "ended"
    /\ \A i \in 1..Len(rooms) : endCalls[i] >= 1 => rooms[i].status = "ended"

\* C2, witness: the second endRoom call on a room has just returned true.
EndRoomIdempotentWitness ==
    /\ ret.op = "endRoom"
    /\ ret.val = TRUE
    /\ \E i \in RoomsWith(ret.code) : endCalls[i] = 2 /\ rooms[i].status = "ended"

\* C3: isRoomValid(code) is true iff a room with exactly that code is stored
\* and its status, in lower case, is "active"; it is false for a code that
\* matches no room.
IsRoomValidIff ==
    /\ \A c \in Codes :
        IsRoomValid(rooms, c) <=>
            \E i \in 1..Len(rooms) :
                /\ rooms[i].roomCode = c
                /\ StatusToLowerCase(rooms[i].status) = "active"
    /\ ret.op = "isRoomValid" =>
        /\ ret.kind = "return"
        /\ ret.val <=> \E i \in RoomsWith(ret.code) :
                            StatusToLowerCase(rooms[i].status) = "active"
        /\ ~HasRoom(ret.code) => ret.val = FALSE

\* C3, witness: isRoomValid has returned false for the lower-case spelling of
\* the code of an active room.
IsRoomValidIffWitness ==
    /\ ret.op = "isRoomValid"
    /\ ret.code = <<"i">>
    /\ ret.val = FALSE
    /\ \E i \in RoomsWith(<<"I">>) : rooms[i].status = "active"
    /\ IsRoomValid(rooms, <<"I">>)

\* C4: a created room's code is valid from creation until the first endRoom
\* on it; endRoom on it returns true; from then on the code is not valid and
\* isRoomEnded is true, and the calls return just that.
CreateThenEnd ==
    /\ \A i \in 1..Len(rooms) :
        LET c == rooms[i].roomCode
        IN /\ endCalls[i] = 0 => IsRoomValid(rooms, c) /\ ~IsRoomEnded(rooms, c)
           /\ endCalls[i] >= 1 => ~IsRoomValid(rooms, c) /\ IsRoomEnded(rooms, c)
    /\ (ret.op = "createRoom" /\ ret.kind = "return") =>
            /\ ret.val.roomCode = ret.code
            /\ IsRoomValid(rooms, ret.code)
    /\ \A i \in RoomsWith(ret.code) :
        /\ ret.op = "endRoom" => ret.val = TRUE /\ endCalls[i] >= 1
        /\ ret.op = "isRoomValid" => ret.val = (endCalls[i] = 0)
        /\ ret.op = "isRoomEnded" => ret.val = (endCalls[i] >= 1)

\* C4, witness: after createRoom and endRoom on its code, isRoomEnded has
\* returned true.
CreateThenEndWitness ==
    /\ ret.op = "isRoomEnded"
    /\ ret.val = TRUE
    /\ \E i \in RoomsWith(ret.code) : endCalls[i] = 1
    /\ ~IsRoomValid(rooms, ret.code)

\* C9: getPollAnalysis on a code that matches no room throws 'Room not found'
\* and returns no report.
AnalysisRoomNotFound ==
    (ret.op = "getPollAnalysis" /\ ~HasRoom(ret.code)) =>
        /\ ret.kind = "throw"
        /\ ret.val = "Room not found"

\* C9, witness: with a room stored, getPollAnalysis on another code has thrown.
AnalysisRoomNotFoundWitness ==
    /\ ret.op = "getPollAnalysis"
    /\ ret.kind = "throw"
    /\ ~HasRoom(ret.code)
    /\ Len(rooms) >= 1

\* C10: endRoom on a code that matches no room returns false and leaves
\* every stored room as it was.
EndRoomNotFound ==
    [][ (ret'.op = "endRoom" /\ ~HasRoom(ret'.code)) =>
            /\ ret'.kind = "return"
            /\ ret'.val = FALSE
            /\ rooms' = rooms ]_vars

\* C10, witness: with an active room stored, endRoom on the lower-case spelling
\* of its code has returned false.
EndRoomNotFoundWitness ==
    /\ ret.op = "endRoom"
    /\ ret.val = FALSE
    /\ ret.code = <<"i">>
    /\ \E i \in RoomsWith(<<"I">>) : rooms[i].status = "active"

----------------------------------------------------------------------------
(* Properties of the report, under SpecAnalysis. The report is the outcome *)
(* of getPollAnalysis in the state the call leaves, where the room it read *)
(* is stored as it was read.                                               *)

HasReport == ret.op = "getPollAnalysis" /\ ret.kind = "return"
ReportRoom == rooms[CHOOSE i \in 1..Len(rooms) : rooms[i].roomCode = ret.code]

\* The answers of a room, by position, and what they say
AnswerAt(room) ==
    UNION { { <<k, j>> : j \in 1..Len(room.polls[k].answers) } :
            k \in 1..Len(room.polls) }
Answerers(room) == { room.polls[x[1]].answers[x[2]].userId : x \in AnswerAt(room) }
IsCorrectAt(room, x) ==
    room.polls[x[1]].answers[x[2]].answerIndex = room.polls[x[1]].correctOptionIndex
NCorrect(room, u) ==
    Cardinality({ x \in AnswerAt(room) :
        room.polls[x[1]].answers[x[2]].userId = u /\ IsCorrectAt(room, x) })
NWrong(room, u) ==
    Cardinality({ x \in AnswerAt(room) :
        room.polls[x[1]].answers[x[2]].userId = u /\ ~IsCorrectAt(room, x) })
DisplayName(u) ==
    LET records == { r \in Users : r.firebaseUID = u }
    IN IF records = {} THEN "Anonymous" ELSE (CHOOSE r \in records : TRUE).firstName

\* The records of the report that stand for student u
RecordsOf(u) ==
    { i \in 1..Len(ret.val.participants) : ret.val.participants[i].name = DisplayName(u) }

\* C5: every stored answer counts once in its student's record: the record's
\* correct is the number of the student's answers that equal the poll's
\* correctOptionIndex, its wrong the number of the others, and its score is 5
\* for each of the former less 2 for each of the latter.
AnswersTallied ==
    HasReport =>
        \A u \in Answerers(ReportRoom) : \A i \in RecordsOf(u) :
            LET p == ret.val.participants[i]
            IN /\ p.correct = NCorrect(ReportRoom, u)
               /\ p.wrong = NWrong(ReportRoom, u)
               /\ p.score = 5 * NCorrect(ReportRoom, u) - 2 * NWrong(ReportRoom, u)

\* C5, witness: a report with a student who has a correct and a wrong answer
\* (score 3) and another with one correct answer (score 5).
AnswersTalliedWitness ==
    /\ HasReport
    /\ \E u, v \in Answerers(ReportRoom) :
        /\ NCorrect(ReportRoom, u) = 1 /\ NWrong(ReportRoom, u) = 1
        /\ NCorrect(ReportRoom, v) = 1 /\ NWrong(ReportRoom, v) = 0
        /\ RecordsOf(u) # {} /\ RecordsOf(v) # {}

\* C6: the participants of a report are in descending order of score.
ParticipantsSorted ==
    HasReport =>
        \A i \in 1..(Len(ret.val.participants) - 1) :
            ret.val.participants[i].score >= ret.val.participants[i + 1].score

\* C6, witness: a report on three students whose first answers came in
\* ascending order of their final scores, which are not all the same.
ParticipantsSortedWitness ==
    /\ HasReport
    /\ Len(ret.val.participants) = 3
    /\ LET map == ProcessPolls(<<>>, ReportRoom.polls, 1)
       IN /\ map[1].score <= map[2].score
          /\ map[2].score <= map[3].score
          /\ map[1].score < map[3].score

\* C7: the participants of a report are one record for each student with at
\* least one answer in the room and no other record; a room without polls
\* has no participants.
OneRecordPerAnswerer ==
    HasReport =>
        /\ Len(ret.val.participants) = Cardinality(Answerers(ReportRoom))
        /\ \A u \in Answerers(ReportRoom) : Cardinality(RecordsOf(u)) = 1
        /\ \A u \in UserIds \ Answerers(ReportRoom) : RecordsOf(u) = {}
        /\ Len(ReportRoom.polls) = 0 => ret.val.participants = <<>>

\* C7, witness: a report on a room where one student answered twice, another
\* once and the third never.
OneRecordPerAnswererWitness ==
    /\ HasReport
    /\ NAnswersOf(ReportRoom) = 3
    /\ Cardinality(Answerers(ReportRoom)) = 2
    /\ Len(ret.val.participants) = 2

\* C8: the questions of a report are one entry per poll of the room, in the
\* room's order of polls, with the poll's question as text and the number of
\* its answers that equal its correctOptionIndex as correctCount.
QuestionsPerPoll ==
    HasReport =>
        /\ Len(ret.val.questions) = Len(ReportRoom.polls)
        /\ \A k \in 1..Len(ReportRoom.polls) :
            /\ ret.val.questions[k].text = ReportRoom.polls[k].question
            /\ ret.val.questions[k].correctCount =
                 Cardinality({ x \in AnswerAt(ReportRoom) :
                                 x[1] = k /\ IsCorrectAt(ReportRoom, x) })

\* C8, witness: a report on two polls, the first with one correct answer and
\* a wrong one, the second with one correct answer.
QuestionsPerPollWitness ==
    /\ HasReport
    /\ Len(ReportRoom.polls) = 2
    /\ Len(ReportRoom.polls[1].answers) = 2
    /\ ret.val.questions[1].correctCount = 1
    /\ ret.val.questions[2].correctCount = 1

----------------------------------------------------------------------------
(* C11: in every reachable state, whatever the order in which overlapping  *)
(* createRoom calls draw their codes and have their saves decided, no two  *)
(* stored rooms carry the same roomCode.                                   *)

UniqueRoomCodes ==
    \A i, j \in 1..Len(rooms) :
        rooms[i].roomCode = rooms[j].roomCode => i = j

\* Two createRoom calls drew the same code at the same clock reading, the
\* save of one has stored its room and the other is still in flight.
UniqueRoomCodesWitness ==
    \E k \in 1..Len(call), i \in 1..Len(rooms) :
        /\ call[k].op = "createRoom"
        /\ call[k].code = rooms[i].roomCode
        /\ call[k].date = rooms[i].createdAt[1]

----------------------------------------------------------------------------
(* C12: a room's endedAt is set once, on termination: an active room has   *)
(* none, an endRoom call that finds the room leaves it with one, and an    *)
(* endRoom call on a room that is already ended leaves the one it has.     *)

EndedAtSetOnce ==
    [][ret'.op = "endRoom" /\ ret'.val = TRUE =>
          \A i \in RoomsWith(ret'.code) :
              /\ rooms[i].status = "active" => rooms[i].endedAt = Absent
              /\ rooms'[i].endedAt # Absent
              /\ rooms[i].status = "ended" => rooms'[i].endedAt = rooms[i].endedAt]_vars

----------------------------------------------------------------------------
(* C13: getPollAnalysis is read-only: whether it returns a report or       *)
(* throws, the Room collection (every room with its status, polls and      *)
(* answers) and the User collection are after the call what they were      *)
(* before it.                                                              *)

GetPollAnalysisReadOnly ==
    [][ret'.op = "getPollAnalysis" => rooms' = rooms /\ userDocs' = userDocs]_vars

\* A report has been returned on a room that holds a poll with an answer,
\* whose student has a user record.
GetPollAnalysisReadOnlyWitness ==
    /\ HasReport
    /\ NAnswersOf(ReportRoom) > 0
    /\ Len(ret.val.participants) = 1
    /\ ret.val.participants[1].name # "Anonymous"
    /\ Len(rooms) = 2

----------------------------------------------------------------------------
(* C14: no operation removes a room, a poll or an answer, and endRoom      *)
(* changes nothing but the status and endedAt of the room with its code:   *)
(* that room's roomCode, name, teacherId, createdAt and polls, and every   *)
(* other room, are what they were.                                         *)

IsPrefix(s, t) == Len(s) <= Len(t) /\ \A i \in 1..Len(s) : s[i] = t[i]

EndRoomFrame ==
    [][/\ Len(rooms') >= Len(rooms)
       /\ \A i \in 1..Len(rooms) :
            /\ rooms'[i]._id = rooms[i]._id
            /\ Len(rooms'[i].polls) >= Len(rooms[i].polls)
            /\ \A k \in 1..Len(rooms[i].polls) :
                 /\ rooms'[i].polls[k]._id = rooms[i].polls[k]._id
                 /\ IsPrefix(rooms[i].polls[k].answers, rooms'[i].polls[k].answers)
       /\ ret'.op = "endRoom" =>
            /\ Len(rooms') = Len(rooms)
            /\ \A i \in 1..Len(rooms) :
                 IF rooms[i].roomCode = ret'.code
                 THEN rooms'[i] = [rooms[i] EXCEPT !.status = rooms'[i].status,
                                                   !.endedAt = rooms'[i].endedAt]
                 ELSE rooms'[i] = rooms[i]]_vars

\* endRoom has ended a room that holds a poll with an answer, while
\* another room is stored.
EndRoomFrameWitness ==
    /\ ret.op = "endRoom" /\ ret.val = TRUE
    /\ Len(rooms) = 2
    /\ \E i \in RoomsWith(ret.code) :
        /\ rooms[i].status = "ended"
        /\ NAnswersOf(rooms[i]) = 1

----------------------------------------------------------------------------
(* C15: for a poll whose correctOptionIndex is the sentinel -1, whatever   *)
(* answerIndex its answers hold, the report counts each of them as wrong   *)
(* (wrong +1, score -2 for its student) and the poll's correctCount is 0.  *)

Sentinel == -1

IsCountedCorrect(room, x) ==
    /\ room.polls[x[1]].correctOptionIndex # Sentinel
    /\ IsCorrectAt(room, x)

AnswersOf(room, u) ==
    { x \in AnswerAt(room) : room.polls[x[1]].answers[x[2]].userId = u }

SentinelAllWrong ==
    HasReport =>
        /\ \A k \in 1..Len(ReportRoom.polls) :
              ReportRoom.polls[k].correctOptionIndex = Sentinel =>
                  ret.val.questions[k].correctCount = 0
        /\ \A u \in Answerers(ReportRoom) : \A i \in RecordsOf(u) :
              LET p == ret.val.participants[i]
                  right == { x \in AnswersOf(ReportRoom, u) : IsCountedCorrect(ReportRoom, x) }
                  wrong == AnswersOf(ReportRoom, u) \ right
              IN /\ p.correct = Cardinality(right)
                 /\ p.wrong = Cardinality(wrong)
                 /\ p.score = 5 * Cardinality(right) - 2 * Cardinality(wrong)

----------------------------------------------------------------------------
(* C16: the analysis does not deduplicate: the answers a student has on    *)
(* one poll are tallied one by one, so the student's correct, wrong and    *)
(* score add up, poll by poll, every answer the student has there, and a   *)
(* poll's correctCount adds up, student by student, every correct one.     *)

AnswersOn(room, k, u) ==
    { j \in 1..Len(room.polls[k].answers) : room.polls[k].answers[j].userId = u }
CorrectOn(room, k, u) ==
    { j \in AnswersOn(room, k, u) :
        room.polls[k].answers[j].answerIndex = room.polls[k].correctOptionIndex }

RECURSIVE SumOver(_, _)
SumOver(f, n) == IF n = 0 THEN 0 ELSE f[n] + SumOver(f, n - 1)

RECURSIVE SumOverSet(_, _)
SumOverSet(f, set) ==
    IF set = {} THEN 0
    ELSE LET x == CHOOSE y \in set : TRUE
         IN f[x] + SumOverSet(f, set \ {x})

NoDeduplication ==
    HasReport =>
        LET n == Len(ReportRoom.polls)
        IN /\ \A u \in Answerers(ReportRoom) : \A i \in RecordsOf(u) :
                LET p == ret.val.participants[i]
                    c == [k \in 1..n |-> Cardinality(CorrectOn(ReportRoom, k, u))]
                    a == [k \in 1..n |-> Cardinality(AnswersOn(ReportRoom, k, u))]
                IN /\ p.correct = SumOver(c, n)
                   /\ p.correct + p.wrong = SumOver(a, n)
                   /\ p.score = SumOver([k \in 1..n |-> 5 * c[k] - 2 * (a[k] - c[k])], n)
           /\ \A k \in 1..n :
                ret.val.questions[k].correctCount =
                    SumOverSet([u \in UserIds |->
                                   Cardinality(CorrectOn(ReportRoom, k, u))], UserIds)

\* A report on a room where one student has two correct answers on the
\* same poll: both count.
NoDeduplicationWitness ==
    /\ HasReport
    /\ \E u \in Answerers(ReportRoom), k \in 1..Len(ReportRoom.polls) :
        /\ Cardinality(CorrectOn(ReportRoom, k, u)) = 2
        /\ \E i \in RecordsOf(u) : ret.val.participants[i].score = 10
        /\ ret.val.questions[k].correctCount = 2

----------------------------------------------------------------------------
(* C17: the duration of a report is "N/A" exactly when the room has no     *)
(* createdAt or no endedAt; otherwise it is the time from createdAt to     *)
(* endedAt in minutes, rounded up to a whole number, followed by " mins".  *)

MsPerMinute == 60000

DurationRule ==
    HasReport =>
        LET room == ReportRoom
            d == ret.val.duration
        IN IF room.createdAt = Absent \/ room.endedAt = Absent
           THEN d = <<"N/A">>
           ELSE LET elapsed == room.endedAt[1] - room.createdAt[1]
                IN /\ Len(d) = 2
                   /\ d[2] = " mins"
                   /\ d[1] \in Int
                   /\ d[1] * MsPerMinute >= elapsed
                   /\ (d[1] - 1) * MsPerMinute < elapsed

\* A report on a room that lasted one millisecond more than a minute: its
\* duration is 2 mins.
DurationRuleWitness ==
    /\ HasReport
    /\ ReportRoom.createdAt # Absent /\ ReportRoom.endedAt # Absent
    /\ ReportRoom.endedAt[1] - ReportRoom.createdAt[1] = 60001
    /\ ret.val.duration = <<2, " mins">>

----------------------------------------------------------------------------
(* C18: of two students with the same score, the one whose first answer    *)
(* comes first, scanning the polls in room order and each poll's answers   *)
(* in stored order, comes first in the participants of the report.         *)

\* The place of answer j of poll k in the scan
ScanPlace(room, k, j) ==
    SumOver([h \in 1..Len(room.polls) |-> Len(room.polls[h].answers)], k - 1) + j

FirstSeen(room, u) ==
    LET places == { ScanPlace(room, x[1], x[2]) : x \in AnswersOf(room, u) }
    IN CHOOSE m \in places : \A q \in places : m <= q

StudentAt(i) ==
    CHOOSE u \in Answerers(ReportRoom) : DisplayName(u) = ret.val.participants[i].name

TiesInFirstSeenOrder ==
    HasReport =>
        \A i, j \in 1..Len(ret.val.participants) :
            /\ i < j
            /\ ret.val.participants[i].score = ret.val.participants[j].score
            => FirstSeen(ReportRoom, StudentAt(i)) < FirstSeen(ReportRoom, StudentAt(j))

\* A report on three students: the first seen has the lowest score and is
\* moved to the end, the other two tie and stay in the order they were seen.
TiesInFirstSeenOrderWitness ==
    /\ HasReport
    /\ Len(ret.val.participants) = 3
    /\ ret.val.participants[1].score = ret.val.participants[2].score
    /\ ret.val.participants[2].score > ret.val.participants[3].score
    /\ FirstSeen(ReportRoom, StudentAt(3)) = 1

----------------------------------------------------------------------------
(* C19: whatever the pseudo-random draw, the code createRoom generates is  *)
(* 6 characters long and made of upper-case letters and digits only.       *)

Digits == {"0", "1", "2", "3", "4", "5", "6", "7", "8", "9"}
UpperAlphanumerics == { Upper[i] : i \in 1..Len(Upper) } \cup Digits
CodeLength == 6

CodeSixUpperAlphanumerics ==
    ret.op = "createRoom" =>
        /\ Len(ret.code) = CodeLength
        /\ \A i \in 1..Len(ret.code) : ret.code[i] \in UpperAlphanumerics

----------------------------------------------------------------------------
(* C20: when the round trip to the document store fails, isRoomValid,      *)
(* isRoomEnded, canJoinRoom, endRoom and getPollAnalysis end with an error *)
(* that is not the Not Found outcome: none of them returns (false or       *)
(* anything else) and getPollAnalysis does not throw 'Room not found'.     *)

StoreFailureSurfaced ==
    ~storeUp /\ ret.op \in RoomQueryOps =>
        /\ ret.kind = "throw"
        /\ ret.val # "Room not found"

\* With the store down, endRoom on a stored, active room has thrown and
\* the room is still active.
StoreFailureSurfacedWitness ==
    /\ ~storeUp
    /\ ret.op = "endRoom" /\ ret.kind = "throw"
    /\ \E i \in RoomsWith(ret.code) : rooms[i].status = "active"

----------------------------------------------------------------------------
(* C21: the report of getPollAnalysis is computed from the room as it was  *)
(* read at the start of the call: what is stored while the call waits for  *)
(* the user lookup is in neither list, so the participants and the         *)
(* questions account for the same answers, those of the room as read.      *)

SumCorrect(participants) ==
    SumOver([i \in 1..Len(participants) |-> participants[i].correct], Len(participants))
SumTallied(participants) ==
    SumOver([i \in 1..Len(participants) |-> participants[i].correct + participants[i].wrong],
            Len(participants))
SumCorrectCount(questions) ==
    SumOver([k \in 1..Len(questions) |-> questions[k].correctCount], Len(questions))

ReportFromSnapshot ==
    [][/\ ret'.op = "getPollAnalysis" /\ ret'.kind = "pending" =>
            \E i \in RoomsWith(ret'.code) : call'[1].room = rooms[i]
       /\ call # NoCall /\ ret'.op = "getPollAnalysis" /\ ret'.kind = "return" =>
            LET read == call[1].room
                report == ret'.val
            IN /\ Len(report.questions) = Len(read.polls)
               /\ SumTallied(report.participants) = NAnswersOf(read)
               /\ SumCorrectCount(report.questions) = SumCorrect(report.participants)
               /\ Len(report.participants) = Cardinality(Answerers(read))]_vars

\* A report has been returned that accounts for fewer polls and fewer
\* answers than the room now holds: they were stored while the call waited.
ReportFromSnapshotWitness ==
    /\ HasReport
    /\ Len(ret.val.questions) < Len(ReportRoom.polls)
    /\ SumTallied(ret.val.participants) < NAnswersOf(ReportRoom)
    /\ SumCorrect(ret.val.participants) > 0

----------------------------------------------------------------------------
(* C22: in every participant record of a report, score is 5 times correct  *)
(* less 2 times wrong, and correct plus wrong is the number of answers the *)
(* room stores for that student over all its polls.                        *)

ScoreFromCounts ==
    HasReport =>
        /\ \A i \in 1..Len(ret.val.participants) :
              LET p == ret.val.participants[i]
              IN p.score = 5 * p.correct - 2 * p.wrong
        /\ \A u \in Answerers(ReportRoom) : \A i \in RecordsOf(u) :
              LET p == ret.val.participants[i]
              IN p.correct + p.wrong = Cardinality(AnswersOf(ReportRoom, u))

\* A report with a student of two wrong answers and one correct (score 1).
ScoreFromCountsWitness ==
    /\ HasReport
    /\ \E i \in 1..Len(ret.val.participants) :
        /\ ret.val.participants[i].correct = 1
        /\ ret.val.participants[i].wrong = 2
        /\ ret.val.participants[i].score = 1

----------------------------------------------------------------------------
(* C23: in every reachable state and for every code, isRoomValid and       *)
(* canJoinRoom give the same answer, isRoomValid and isRoomEnded are never *)
(* both true, exactly one of them is true when a room with the code is     *)
(* stored, and both are false when none is.                                *)

AllCodes == Codes \cup GeneratedCodes

LookupsAgree ==
    \A c \in AllCodes :
        /\ IsRoomValid(rooms, c) = CanJoinRoom(rooms, c)
        /\ ~(IsRoomValid(rooms, c) /\ IsRoomEnded(rooms, c))
        /\ HasRoom(c) => (IsRoomValid(rooms, c) # IsRoomEnded(rooms, c))
        /\ ~HasRoom(c) => ~IsRoomValid(rooms, c) /\ ~IsRoomEnded(rooms, c)

\* canJoinRoom has just refused an ended room, while another room is
\* active and a third code has no room.
LookupsAgreeWitness ==
    /\ ret.op = "canJoinRoom" /\ ret.val = FALSE
    /\ IsRoomEnded(rooms, ret.code)
    /\ \E c \in AllCodes : IsRoomValid(rooms, c)
    /\ \E c \in AllCodes : ~HasRoom(c)

----------------------------------------------------------------------------
(* C27: in every state of the auth store and from every starting route,    *)
(* the redirects of the beforeLoad guards end after finitely many hops     *)
(* (one at most), a location under /teacher is only loaded for a signed-in *)
(* teacher and a location under /student only for a signed-in student.     *)

RedirectsGuardRoles ==
    /\ router.hops <= 1
    /\ router.hops >= 1 => BeforeLoad(router.path, router.auth) = Absent
    /\ router.landed /\ router.path \in TeacherPaths =>
          router.auth.isAuthenticated /\ RoleIs(router.auth, "teacher")
    /\ router.landed /\ router.path \in StudentPaths =>
          router.auth.isAuthenticated /\ RoleIs(router.auth, "student")

\* A signed-in student who opened a teacher's poll room has been
\* redirected and has landed on /student.
RedirectsGuardRolesWitness ==
    /\ router.landed
    /\ router.from = <<"teacher", "pollroom", "$code">>
    /\ router.path = <<"student">>
    /\ router.hops = 1
    /\ router.auth.isAuthenticated /\ RoleIs(router.auth, "student")

----------------------------------------------------------------------------
(* C28: on the student page, whatever the order of selections, Submit      *)
(* clicks, delayed commits and timer ticks, an answer that is recorded for *)
(* a poll never changes, and no answer is recorded for a poll whose timer  *)
(* is at 0.                                                                *)

AnswerRecordedOnce ==
    [][\A p \in PollIds :
          /\ student.answeredPolls[p] # Absent =>
                student'.answeredPolls[p] = student.answeredPolls[p]
          /\ student.answeredPolls[p] = Absent /\ student'.answeredPolls[p] # Absent =>
                student.pollTimers[p] > 0]_vars

----------------------------------------------------------------------------
(* C24: in the teacher page's chunk queue, whatever the order of enqueues  *)
(* and request completions, at most one processPendingQueue loop is        *)
(* active, with at most one request in flight; chunks are sent in the      *)
(* order they were enqueued; and a request that fails drops only its own   *)
(* chunk: the chunks pending behind it are sent next, none is skipped.     *)

SentInOrder(t) ==
    \A i, j \in 1..Len(t.sent) : i < j => t.sent[i].serial < t.sent[j].serial

OneLoop(t) ==
    /\ Len(t.requests) <= 1
    /\ t.processingQueue <=> t.requests # <<>>
    /\ t.pendingTextChunks # <<>> => t.requests # <<>>

\* the step is the completion of the request in flight
IsCompletion(t, u) == t.requests # <<>> /\ u.requests # t.requests

QueueSequentialInOrder ==
    [][/\ OneLoop(teacher')
       /\ SentInOrder(teacher')
       /\ IsCompletion(teacher, teacher') =>
             teacher.pendingTextChunks = teacher'.requests \o teacher'.pendingTextChunks]_vars

QueueSequentialInOrderWitness ==
    \E i \in 1..Len(teacher.failed), j \in 1..Len(teacher.sent) :
        /\ teacher.failed[i].serial < teacher.sent[j].serial
        /\ teacher.failed[i].recording = teacher.sent[j].recording
        /\ teacher.generated > 0
        /\ teacher.requests = <<>>

----------------------------------------------------------------------------
(* C25: during a live recording on the teacher page every word of the      *)
(* transcript is enqueued at most once: a checkpoint chunk is the 100      *)
(* words from processedWords on, the flush is the words that remain, no    *)
(* two chunks enqueued in a recording overlap, and processedWords never    *)
(* exceeds the number of words of the transcript.                          *)

Overlap(c, d) == c.from < d.to /\ d.from < c.to

WordsEnqueuedOnce ==
    /\ teacher.isRecording => teacher.processedWords <= DisplayWords(teacher)
    /\ \A i, j \in 1..Len(teacher.enqueued) :
          i < j /\ teacher.enqueued[i].recording = teacher.enqueued[j].recording
             => ~Overlap(teacher.enqueued[i], teacher.enqueued[j])
    /\ \A i \in 1..Len(teacher.enqueued) :
          teacher.enqueued[i].to - teacher.enqueued[i].from <= ChunkWords

----------------------------------------------------------------------------
(* C26: after recording stops on the teacher page, the wait loop of        *)
(* handleRecordingToggle ends with no chunk pending, and every question    *)
(* generated from the queued chunks is appended to generatedQuestions      *)
(* exactly once, none lost and none twice, also when the stop handler runs *)
(* twice. Stated on finite runs: no question is ever in generatedQuestions *)
(* twice, and once the page is at rest (not recording, recognition ended,  *)
(* no handler waiting, queue idle) every generated question is in it.      *)

TimesAppended(t, q) ==
    Cardinality({i \in 1..Len(t.generatedQuestions) : t.generatedQuestions[i] = q})

AtRest(t) ==
    /\ ~t.isRecording
    /\ t.recognition = Absent
    /\ t.waiting = 0
    /\ t.requests = <<>>
    /\ t.pendingTextChunks = <<>>

QuestionsAppendedOnce ==
    /\ \A q \in 1..teacher.generated : TimesAppended(teacher, q) <= 1
    /\ AtRest(teacher) => \A q \in 1..teacher.generated : TimesAppended(teacher, q) = 1

\* the part of C26 that holds: a waiting stop handler gets to its end
WaitLoopTerminates == (teacher.waiting > 0) ~> (teacher.waiting = 0)

----------------------------------------------------------------------------
(* C29: on the teacher page a generated question is launched as a poll at  *)
(* most once: after any launches, deletes and navigation the Launch Poll   *)
(* button is disabled for exactly the questions that were launched.        *)

WasLaunched(t, q) == \E i \in 1..Len(t.createdPolls) : t.createdPolls[i] = q

LaunchedAtMostOnce ==
    /\ \A i, j \in 1..Len(teacher.createdPolls) :
          i < j => teacher.createdPolls[i] # teacher.createdPolls[j]
    /\ ViewerRendered(teacher) /\ CurrentQuestionDefined(teacher) =>
          (LaunchDisabled(teacher) <=>
             WasLaunched(teacher, teacher.generatedQuestions[teacher.currentQuestionIndex + 1]))

----------------------------------------------------------------------------
(* C30: on the teacher page, whenever the generated-question viewer is     *)
(* rendered, currentQuestionIndex is an index into generatedQuestions,     *)
(* after any generate, navigate, delete and clear actions.                 *)

CurrentQuestionIndexValid ==
    ViewerRendered(teacher) => CurrentQuestionDefined(teacher)

====
